---------------------------- MODULE Spec2Model ----------------------------
(***************************************************************************)
(* Model of multi_warehouse_mrp_app.py: one run of the MRP script, from    *)
(* the loaded input tables to the planned orders table.                    *)
(*                                                                         *)
(* Numbers.  Every quantity of the script is an IEEE 754 double (Python    *)
(* float, numpy float64).  A double d with |d| < 2^30 that is a multiple   *)
(* of 2^-52 is the record [w, hi, lo] with d = w + (hi * 2^26 + lo) / 2^52,*)
(* w = floor(d) and 0 <= hi, lo < 2^26.  The doubles of a run are of that  *)
(* kind: the inputs are multiples of 1/2, a demand figure is at least 1,   *)
(* and sums and differences of multiples of 2^-52 are multiples of 2^-52.  *)
(* Each operation computes the exact result and rounds it to 53            *)
(* significant bits, to nearest, ties to even, as the hardware does.       *)
(*                                                                         *)
(* Dates.  A week_start is a whole number of days counted from             *)
(* today_monday (line 130); strftime("%b %d, %Y") (lines 264-265) keeps    *)
(* the calendar day, which is all a week_start has.                        *)
(*                                                                         *)
(* Left out: file decoding (lines 30-52), the UOM mismatch table           *)
(* (lines 78-102) except for its read of the item_id column, the           *)
(* description/uom columns, the parameter                                  *)
(* table and its styling (lines 194-246) except for the exception it       *)
(* raises on an empty debug table, and the Excel export (lines 278-287).   *)
(***************************************************************************)
EXTENDS Integers, Sequences, FiniteSets

VARIABLES
    items,         \* Item Master table, rows in file order
    inventory,     \* Inventory On Hand table, rows in file order
    issuance,      \* Historical Weekly Issuance table, rows in file order
    receipts,      \* Scheduled Receipts table, rows in file order
    items_columns, \* columns present in the Item Master file
    pc,            \* position of the script
    k,             \* index of the current (wh, item) in the nested loops
    i,             \* index of the current bucket (line 159)
    previous_s,    \* running balance (lines 144, 187)
    avg_demand,    \* demand figure of the current item (lines 156-157)
    debug_rows,    \* netting rows (line 137)
    planned_rows,  \* planned orders table (lines 251-275)
    error,         \* what stopped the run, "" if nothing did
    shown          \* what st.error / st.dataframe displayed with the stop

vars == <<items, inventory, issuance, receipts, items_columns, pc, k, i,
          previous_s, avg_demand, debug_rows, planned_rows, error, shown>>

inputs == <<items, inventory, issuance, receipts, items_columns>>

---------------------------------------------------------------------------
(* Numbers *)

\* num_weeks = 12 (line 131)
num_weeks == 12

\* tail(4) (line 155)
TailLen == 4

\* The fraction of a double is kept in two limbs of 26 bits.
Limb == 2^26

\* [w, hi, lo] with the carries of hi and lo taken up.
Norm(w, hi, lo) ==
    LET hi2 == hi + (lo \div Limb)
    IN  [w |-> w + (hi2 \div Limb), hi |-> hi2 % Limb, lo |-> lo % Limb]

\* The whole number n as a double.
Q(n) == [w |-> n, hi |-> 0, lo |-> 0]

\* n + 1/2 as a double.
QHalf(n) == [w |-> n, hi |-> Limb \div 2, lo |-> 0]

IsWhole(a) == a.hi = 0 /\ a.lo = 0

\* a < b, a <= b on doubles.
Less(a, b) ==
    \/ a.w < b.w
    \/ a.w = b.w /\ a.hi < b.hi
    \/ a.w = b.w /\ a.hi = b.hi /\ a.lo < b.lo

Leq(a, b) == ~Less(b, a)

\* The exact sum and difference of two doubles.
ExactAdd(a, b) == Norm(a.w + b.w, a.hi + b.hi, a.lo + b.lo)
ExactSub(a, b) == Norm(a.w - b.w, a.hi - b.hi, a.lo - b.lo)

\* floor(|a|)
FloorAbs(a) == IF a.w >= 0 THEN a.w ELSE IF IsWhole(a) THEN -a.w ELSE -a.w - 1

RECURSIVE Log2(_)
Log2(n) == IF n < 2 THEN 0 ELSE 1 + Log2(n \div 2)

\* The double nearest to a + (rem / n) * 2^-52, 0 <= rem < n, ties to even: a
\* value in [2^e, 2^(e+1)) is rounded to a multiple of 2^(e-52), which is a
\* multiple of 2^e in lo for e < 26 and of 2^(e-26) in hi, with lo = 0, from
\* there on; below 1 a multiple of 2^-52 is a double as it is.
RoundDouble(a, rem, n) ==
    IF FloorAbs(a) = 0 THEN a
    ELSE LET e == Log2(FloorAbs(a))
         IN  IF e = 0
             THEN LET up == 2 * rem > n \/ (2 * rem = n /\ a.lo % 2 = 1)
                  IN  Norm(a.w, a.hi, a.lo + (IF up THEN 1 ELSE 0))
             ELSE IF e < 26
             THEN LET G == 2^e
                      low == a.lo % G
                      up == \/ low > G \div 2
                            \/ low = G \div 2 /\ (rem > 0 \/ (a.lo \div G) % 2 = 1)
                  IN  Norm(a.w, a.hi, a.lo - low + (IF up THEN G ELSE 0))
             ELSE LET G == 2^(e - 26)
                      lowhi == a.hi % G
                      low == lowhi * Limb + a.lo
                      half == G * (Limb \div 2)
                      up == \/ low > half
                            \/ low = half /\ (rem > 0 \/ (a.hi \div G) % 2 = 1)
                  IN  Norm(a.w, a.hi - lowhi + (IF up THEN G ELSE 0), 0)

\* a + b and a - b in double arithmetic.
FAdd(a, b) == RoundDouble(ExactAdd(a, b), 0, 1)
FSub(a, b) == RoundDouble(ExactSub(a, b), 0, 1)

\* a / n in double arithmetic, for a >= n >= 1, n a whole number.
FDiv(a, n) ==
    LET t1 == (a.w % n) * Limb + a.hi
        t0 == (t1 % n) * Limb + a.lo
    IN  RoundDouble([w |-> a.w \div n, hi |-> t1 \div n, lo |-> t0 \div n], t0 % n, n)

\* max(a, b) (lines 157, 165, 168)
Max(a, b) == IF Leq(b, a) THEN a ELSE b

\* Python int(x): truncation toward zero.
PyInt(x) == Q(IF x.w >= 0 \/ IsWhole(x) THEN x.w ELSE x.w + 1)

\* np.ceil(a / b) for a double a > 0 and a whole number b # 0, as a plain
\* integer.  The rounding of the quotient never reaches the next integer:
\* the double next to a multiple of b is further from it than b times half
\* the spacing of the doubles at the quotient.
NpCeilDiv(a, b) ==
    IF b > 0
    THEN -((-(IF IsWhole(a) THEN a.w ELSE a.w + 1)) \div b)
    ELSE -(a.w \div (-b))

---------------------------------------------------------------------------
(* Sequences *)

\* The doubles of s added to acc one after the other.
RECURSIVE AddInOrder(_, _)
AddInOrder(acc, s) == IF s = <<>> THEN acc ELSE AddInOrder(FAdd(acc, Head(s)), Tail(s))

\* numpy's PW_BLOCKSIZE: the longest run that is summed without splitting.
PW_BLOCKSIZE == 128

\* The running sum of lane j of numpy's pairwise summation over the first
\* blocks * 8 doubles of s: s[j], s[8 + j], s[16 + j], ... added in order.
RECURSIVE LaneSum(_, _, _)
LaneSum(s, j, blocks) ==
    IF blocks = 1 THEN s[j]
    ELSE FAdd(LaneSum(s, j, blocks - 1), s[8 * (blocks - 1) + j])

\* numpy's pairwise_sum, which add.reduce runs for Series.sum(): fewer than 8
\* doubles are added in order; up to PW_BLOCKSIZE, eight lanes are summed side
\* by side, combined in pairs, and the rest past the last full block of 8 is
\* added in order; a longer run is split in two at a multiple of 8.
RECURSIVE pairwise_sum(_)
pairwise_sum(s) ==
    LET n == Len(s)
    IN  IF n < 8 THEN AddInOrder(Q(0), s)
        ELSE IF n <= PW_BLOCKSIZE
        THEN LET blocks == n \div 8
                 r(j) == LaneSum(s, j, blocks)
                 res == FAdd(FAdd(FAdd(r(1), r(2)), FAdd(r(3), r(4))),
                             FAdd(FAdd(r(5), r(6)), FAdd(r(7), r(8))))
             IN  AddInOrder(res, SubSeq(s, 8 * blocks + 1, n))
        ELSE LET n2 == (n \div 2) - ((n \div 2) % 8)
             IN  FAdd(pairwise_sum(SubSeq(s, 1, n2)), pairwise_sum(SubSeq(s, n2 + 1, n)))

\* Series.sum() (lines 156, 162)
SeqSum(s) == pairwise_sum(s)

Range(s) == {s[j] : j \in 1..Len(s)}

\* Series.unique(): the distinct values in order of first appearance.
RECURSIVE Unique(_)
Unique(s) ==
    IF s = <<>> THEN <<>>
    ELSE LET r == Unique(SubSeq(s, 1, Len(s) - 1))
             x == s[Len(s)]
         IN  IF x \in Range(r) THEN r ELSE Append(r, x)

\* DataFrame.tail(n)
TailN(s, n) == IF Len(s) <= n THEN s ELSE SubSeq(s, Len(s) - n + 1, Len(s))

\* The last count rows (all when fewer) of the orders by week_start of the rows of
\* s with an index in J: any row of the newest week can be the last.
RECURSIVE SortedTails(_, _, _)
SortedTails(s, J, count) ==
    IF J = {} \/ count = 0 THEN {<<>>}
    ELSE UNION {{Append(t, s[j]) : t \in SortedTails(s, J \ {j}, count - 1)} :
                   j \in {x \in J : \A y \in J : s[y].week_start <= s[x].week_start}}

\* sort_values("week_start") (line 155): the sort is numpy's quicksort, which
\* keeps no order among rows of one week_start, so every order by week_start is
\* a possible outcome.
SortByWeek(s) == SortedTails(s, 1..Len(s), Len(s))

---------------------------------------------------------------------------
(* Section 3: the validation of the Item Master *)

\* required_cols (line 112)
required_cols ==
    <<"warehouse", "item_id", "description", "safety_stock", "lead_time",
      "MOQ", "pack_size", "uom">>

\* missing (line 113)
missing(cols) == SelectSeq(required_cols, LAMBDA c : c \notin cols)

Key(r) == <<r.warehouse, r.item_id>>

\* items.duplicated(subset=["warehouse","item_id"], keep=False) (line 118)
duplicated(tbl, r) ==
    Cardinality({j \in 1..Len(tbl) : Key(tbl[j]) = Key(r)}) > 1

\* Variant of dupes: keep="first", the first row of a key is not marked.
dupesKeepFirst(tbl) ==
    LET tagged == [j \in 1..Len(tbl) |-> <<j, tbl[j]>>]
        later == SelectSeq(tagged, LAMBDA t :
                    \E m \in 1..(t[1] - 1) : Key(tbl[m]) = Key(t[2]))
    IN  [j \in 1..Len(later) |-> later[j][2]]

\* dupes (line 118): every row whose key occurs more than once, in file order.
dupes(tbl) == SelectSeq(tbl, LAMBDA r : duplicated(tbl, r))

\* The keys of items_dict (line 124), in file order.
items_dict_keys(tbl) == [j \in 1..Len(tbl) |-> Key(tbl[j])]

\* items_dict.get((wh, item)) (lines 145, 254); the keys are unique by then.
items_dict(tbl, key) == CHOOSE r \in Range(tbl) : Key(r) = key

---------------------------------------------------------------------------
(* Sections 4 and 5: horizon, loops, demand, netting *)

\* time_buckets (line 132), in days from today_monday.
time_buckets == [w \in 1..num_weeks |-> 7 * (w - 1)]

\* warehouses (line 107): the warehouses of the inventory file.
warehouses(inv) == Unique([j \in 1..Len(inv) |-> inv[j].warehouse])

\* wh_items (line 141)
wh_items(tbl, wh) ==
    LET ks == SelectSeq(items_dict_keys(tbl), LAMBDA key : key[1] = wh)
    IN  [j \in 1..Len(ks) |-> ks[j][2]]

\* The (wh, item) pairs in the order the loops of lines 139 and 143 visit them.
RECURSIVE LoopOrder(_, _)
LoopOrder(tbl, whs) ==
    IF whs = <<>> THEN <<>>
    ELSE LET its == wh_items(tbl, Head(whs))
         IN  [j \in 1..Len(its) |-> <<Head(whs), its[j]>>]
             \o LoopOrder(tbl, Tail(whs))

worklist(tbl, inv) == LoopOrder(tbl, warehouses(inv))

\* wh_inventory.get(item, 0) (lines 140, 144): to_dict keeps the last row of a key.
wh_inventory_get(inv, wh, item) ==
    LET rows == SelectSeq(inv, LAMBDA r : r.warehouse = wh /\ r.item_id = item)
    IN  IF rows = <<>> THEN Q(0) ELSE rows[Len(rows)].on_hand_qty

\* Variant of last4: the last rows of the file, not of the weeks.
last4Unsorted(iss, wh, item) ==
    {TailN(SelectSeq(iss, LAMBDA r : r.warehouse = wh /\ r.item_id = item), TailLen)}

\* last4 (line 155): the tables the sort and tail(4) can give, which are the
\* last four rows of every SortByWeek of the rows of the item.
last4(iss, wh, item) ==
    LET h == SelectSeq(iss, LAMBDA r : r.warehouse = wh /\ r.item_id = item)
    IN  SortedTails(h, 1..Len(h), TailLen)

\* max(the_sum / count, 1) (lines 156-157): a mean below 1 gives way to 1, a
\* mean of at least 1 is the_sum / count as a double.
FlooredMean(the_sum, count) ==
    IF Less(the_sum, Q(count)) THEN Q(1) ELSE FDiv(the_sum, count)

\* avg_demand (lines 156-157): the values it can take, one for every last4.
AvgDemand(iss, wh, item) ==
    {IF l # <<>>
     THEN FlooredMean(SeqSum([j \in 1..Len(l) |-> l[j].issued_qty]), Len(l))
     ELSE Q(1) : l \in last4(iss, wh, item)}

\* incoming_qty (lines 161-162)
IncomingQty(rec, wh, item, bucket) ==
    LET rows == SelectSeq(rec, LAMBDA r : /\ r.warehouse = wh
                                          /\ r.item_id = item
                                          /\ r.week_start = bucket)
    IN  SeqSum([j \in 1..Len(rows) |-> rows[j].qty])

\* The parameters as the loop reads them (lines 147-150).
SafetyStock(p) == p.safety_stock
LeadTime(p) == PyInt(p.lead_time)
Moq(p) == PyInt(p.MOQ)
PackSize(p) == PyInt(p.pack_size)

\* Variant of Shortage: the test on the beginning balance.
ShortageFromBeginning(prev, req, inc, ss) == Max(FSub(ss, prev), Q(0))

\* shortage (lines 164-165), from the balance before any order.
Shortage(prev, req, inc, ss) == Max(FSub(ss, FAdd(FSub(prev, req), inc)), Q(0))

\* Variant of LotSize: rounded down to a multiple of pack_size.
LotSizeRoundedDown(shortage, moq, pack_size) ==
    LET size == IF pack_size.w < 0 THEN -pack_size.w ELSE pack_size.w
    IN  PyInt(Q((Max(shortage, moq).w \div size) * size))

\* planned_qty (lines 168-169), for shortage > 0 and pack_size # 0.
LotSize(shortage, moq, pack_size) ==
    PyInt(Q(NpCeilDiv(Max(shortage, moq), pack_size.w) * pack_size.w))

\* Line 169 divides by pack_size: an exception when it is 0.
DividesByZero(prev, req, inc, p) ==
    Less(Q(0), Shortage(prev, req, inc, SafetyStock(p))) /\ PackSize(p) = Q(0)

\* Variant of NetRow: the ending balance clamped at 0.
NetRowClamped(wh, item, bucket, prev, req, inc, p) ==
    LET pre == FAdd(FSub(prev, req), inc)
        shortage == Max(FSub(SafetyStock(p), pre), Q(0))
        planned_qty == IF Less(Q(0), shortage)
                       THEN PyInt(Q(NpCeilDiv(Max(shortage, Moq(p)), PackSize(p).w)
                                    * PackSize(p).w))
                       ELSE Q(0)
    IN  [warehouse |-> wh, item |-> item, week |-> bucket,
         Beg_SOH |-> prev, Wkly_Req |-> req, Incoming |-> inc,
         Shortage |-> shortage, Planned_Order |-> planned_qty,
         End_SOH |-> Max(IF Less(Q(0), shortage) THEN FAdd(pre, planned_qty) ELSE pre, Q(0)),
         Safety_Stock |-> SafetyStock(p)]

\* The row of one bucket (lines 160-185).
NetRow(wh, item, bucket, prev, req, inc, p) ==
    LET end_s == FAdd(FSub(prev, req), inc)
        shortage == Shortage(prev, req, inc, SafetyStock(p))
        planned_qty == IF Less(Q(0), shortage)
                       THEN LotSize(shortage, Moq(p), PackSize(p))
                       ELSE Q(0)
    IN  [warehouse |-> wh, item |-> item, week |-> bucket,
         Beg_SOH |-> prev, Wkly_Req |-> req, Incoming |-> inc,
         Shortage |-> shortage, Planned_Order |-> planned_qty,
         End_SOH |-> IF Less(Q(0), shortage) THEN FAdd(end_s, planned_qty) ELSE end_s,
         Safety_Stock |-> SafetyStock(p)]

---------------------------------------------------------------------------
(* Section 8: planned orders *)

\* Variant of ReleaseWeek: no release before the first bucket.
ReleaseWeekClamped(receipt_week, lead_time) ==
    IF receipt_week - 7 * lead_time.w >= 0 THEN receipt_week - 7 * lead_time.w ELSE 0

\* release_week (line 257)
ReleaseWeek(receipt_week, lead_time) == receipt_week - 7 * lead_time.w

\* One planned order (lines 254-266).
PlannedRow(tbl, r) ==
    [warehouse |-> r.warehouse, item |-> r.item,
     planned_qty |-> r.Planned_Order,
     receipt_week |-> r.week,
     release_week |-> ReleaseWeek(r.week, LeadTime(items_dict(tbl, <<r.warehouse, r.item>>)))]

\* The order of the names the tables use, as Python compares strings.
NameOrder == <<"A", "B", "W1", "W2">>

NameRank(n) == CHOOSE j \in 1..Len(NameOrder) : NameOrder[j] = n

\* The sort key of line 274: release_week_dt, warehouse, item.
SortsBefore(a, b) ==
    \/ a.release_week < b.release_week
    \/ /\ a.release_week = b.release_week
       /\ \/ NameRank(a.warehouse) < NameRank(b.warehouse)
          \/ /\ a.warehouse = b.warehouse
             /\ NameRank(a.item) < NameRank(b.item)

RECURSIVE InsertOrder(_, _)
InsertOrder(s, r) ==
    IF s = <<>> THEN <<r>>
    ELSE IF ~SortsBefore(r, s[Len(s)]) THEN Append(s, r)
    ELSE Append(InsertOrder(SubSeq(s, 1, Len(s) - 1), r), s[Len(s)])

\* planned_df.sort_values([...]) (line 274)
RECURSIVE SortOrders(_)
SortOrders(s) ==
    IF s = <<>> THEN <<>>
    ELSE InsertOrder(SortOrders(SubSeq(s, 1, Len(s) - 1)), s[Len(s)])

\* The rows that get an order (line 253).
OrderedRows(rows) == SelectSeq(rows, LAMBDA r : Less(Q(0), r.Planned_Order))

\* planned_df as displayed (lines 251-276).
PlannedOrders(tbl, rows) ==
    LET sel == OrderedRows(rows)
    IN  SortOrders([j \in 1..Len(sel) |-> PlannedRow(tbl, sel[j])])

---------------------------------------------------------------------------
(* The input tables of the runs that are checked *)

\* Longest Item Master, inventory, receipts and issuance-history tables.
MaxItemRows == 2
MaxInvRows == 2
MaxReceipts == 2
MaxHist == 5

SeqsUpTo(S, lo, hi) == UNION {[1..n -> S] : n \in lo..hi}

AllColumns == Range(required_cols)

ItemRow(key, ss, lt, moq, pack) ==
    [warehouse |-> key[1], item_id |-> key[2], safety_stock |-> ss,
     lead_time |-> lt, MOQ |-> moq, pack_size |-> pack]

InvRow(key, qty) == [warehouse |-> key[1], item_id |-> key[2], on_hand_qty |-> qty]

IssRow(key, week, qty) ==
    [warehouse |-> key[1], item_id |-> key[2], week_start |-> week, issued_qty |-> qty]

RecRow(key, week, qty) ==
    [warehouse |-> key[1], item_id |-> key[2], week_start |-> week, qty |-> qty]

Input(it, inv, iss, rec, cols) ==
    [items |-> it, inventory |-> inv, issuance |-> iss, receipts |-> rec,
     columns |-> cols]

KeyA == <<"W1", "A">>
KeyB == <<"W1", "B">>

\* The (warehouse, item_id) keys of the multi-row tables.
TableKeys == {KeyA, KeyB, <<"W2", "A">>}

\* The parameters of the example of the specification: safety stock 20,
\* lead time 2, MOQ 15, pack size 10.
StdItemRow(key) == ItemRow(key, Q(20), Q(2), Q(15), Q(10))

StdIssuance == <<IssRow(KeyA, -7, Q(5)), IssRow(KeyB, -7, Q(8))>>

StdReceipts == <<RecRow(KeyA, 7, Q(10))>>

\* A history of item A whose mean, 5/3, is no double.
ThirdsIssuance ==
    <<IssRow(KeyA, -21, Q(5)), IssRow(KeyA, -14, Q(0)), IssRow(KeyA, -7, Q(0))>>

\* Item Master tables with one to MaxItemRows rows, keys possibly repeated.
ItemTables == SeqsUpTo({StdItemRow(key) : key \in TableKeys}, 1, MaxItemRows)

\* Inventory tables with up to MaxInvRows rows, keys possibly repeated, the key
\* of item A of W1 with either of two quantities.
InvTables ==
    SeqsUpTo({InvRow(key, Q(40)) : key \in TableKeys} \cup {InvRow(KeyA, Q(10))},
             0, MaxInvRows)

\* Runs that differ in which keys the tables hold.
TableInputs ==
    {Input(it, inv, StdIssuance, StdReceipts, AllColumns) :
        it \in ItemTables, inv \in InvTables}

\* Runs whose Item Master file lacks required columns.
SchemaInputs ==
    {Input(it, <<InvRow(KeyA, Q(10))>>, StdIssuance, StdReceipts, AllColumns \ drop) :
        it \in ItemTables, drop \in {{"pack_size"}, {"MOQ", "pack_size"}, {"item_id"}}}

\* s with row r put in as the row of index j.
InsertAt(s, j, r) == SubSeq(s, 1, j - 1) \o <<r>> \o SubSeq(s, j, Len(s))

\* Item Master tables with a repeated key: a second row, with another MOQ, for
\* the key of one of the rows, anywhere in the file.
DuplicateTables ==
    {InsertAt(it, j, [it[n] EXCEPT !.MOQ = Q(30)]) :
        <<it, n, j>> \in {x \in ItemTables \X (1..MaxItemRows) \X (1..MaxItemRows + 1) :
                             x[2] <= Len(x[1]) /\ x[3] <= Len(x[1]) + 1}}

\* Runs whose Item Master repeats a key.
DuplicateInputs ==
    {Input(it, inv, StdIssuance, StdReceipts, AllColumns) :
        it \in DuplicateTables, inv \in {<<>>, <<InvRow(KeyA, Q(10)), InvRow(KeyB, Q(40))>>}}

\* pack_size, MOQ, safety_stock, lead_time and on_hand_qty values.
PackSizes == {Q(-10), Q(0), QHalf(0), Q(1), QHalf(2), Q(10)}
Moqs == {Q(0), QHalf(2), Q(15)}
SafetyStocks == {Q(0), Q(20)}
LeadTimes == {Q(0), Q(2)}
OnHands == {Q(0), Q(10), Q(30)}

\* Receipts of item A: on the first bucket, on a day that is no bucket.
ReceiptTables ==
    SeqsUpTo({RecRow(KeyA, day, Q(20)) : day \in {0, 10}}, 0, MaxReceipts)

\* Runs of one item that differ in its parameters, balance and receipts.
ParamInputs ==
    {Input(<<ItemRow(KeyA, ss, lt, moq, pack)>>, <<InvRow(KeyA, oh)>>, iss, rec, AllColumns) :
        ss \in SafetyStocks, lt \in LeadTimes, moq \in Moqs, pack \in PackSizes,
        oh \in OnHands, iss \in {<<>>, StdIssuance, ThirdsIssuance}, rec \in ReceiptTables}

\* The double next to 5/3, a receipt quantity that is no multiple of 1/2.
FiveThirds == FDiv(Q(5), 3)

\* How many receipts one bucket gets in the runs with a split delivery: short
\* of a block of 8, one block, a block and a rest, two blocks and a rest, and
\* more than PW_BLOCKSIZE.
SplitCounts == {7, 8, 9, 17, PW_BLOCKSIZE + 8}

\* Runs of one item whose first bucket has a delivery split into many receipts.
SplitReceiptInputs ==
    {Input(<<ItemRow(KeyA, Q(20), Q(2), Q(15), pack)>>, <<InvRow(KeyA, Q(10))>>, iss,
           [j \in 1..c |-> RecRow(KeyA, 0, FiveThirds)], AllColumns) :
        pack \in {Q(1), Q(10)}, iss \in {StdIssuance, ThirdsIssuance}, c \in SplitCounts}

\* On-hand quantities whose doubles are more than 2^-26 apart.
LargeOnHands == {Q(200000000), Q(2^30 - 64)}

\* Runs of one item with a large balance.
LargeInputs ==
    {Input(<<ItemRow(KeyA, ss, Q(2), Q(15), Q(10))>>, <<InvRow(KeyA, oh)>>, ThirdsIssuance,
           rec, AllColumns) :
        ss \in {Q(20), Q(200000000)}, oh \in LargeOnHands,
        rec \in {<<>>, <<RecRow(KeyA, 7, FiveThirds)>>}}

\* Issued quantities of the history points.
IssuedQtys == {Q(-1), QHalf(0), Q(6)}

\* How the weeks of a history lie in the file: one point a week, oldest first
\* or newest first, or all points in two weeks, by turns.
HistoryOrders == {"oldest_first", "newest_first", "two_weeks"}

\* A history of item A after a point of another item.
HistoryTable(qs, order) ==
    <<IssRow(KeyB, -7, Q(9))>> \o
    [j \in 1..Len(qs) |->
        IssRow(KeyA,
               CASE order = "oldest_first" -> -7 * (Len(qs) + 1 - j)
                 [] order = "newest_first" -> -7 * j
                 [] order = "two_weeks" -> IF j % 2 = 1 THEN -14 ELSE -7,
               qs[j])]

\* Runs of one item that differ in its issuance history.
HistoryInputs ==
    {Input(<<StdItemRow(KeyA)>>, <<InvRow(KeyA, Q(10))>>, HistoryTable(qs, order), <<>>,
           AllColumns) :
        qs \in SeqsUpTo(IssuedQtys, 0, MaxHist), order \in HistoryOrders}

\* The double next above 1.
OnePlusUlp == [w |-> 1, hi |-> 0, lo |-> 1]

\* Runs of one item whose demand leaves balances between whole numbers.
RoundingInputs ==
    {Input(<<ItemRow(KeyA, ss, Q(2), moq, pack)>>, <<InvRow(KeyA, oh)>>, iss, <<>>, AllColumns) :
        ss \in {Q(1), Q(20)}, moq \in {Q(0), Q(15)}, pack \in {Q(1), Q(10)},
        oh \in {Q(0), Q(10)},
        iss \in {<<IssRow(KeyA, -7, OnePlusUlp)>>, <<IssRow(KeyA, -7, FiveThirds)>>}}

Inputs ==
    TableInputs \cup SchemaInputs \cup DuplicateInputs \cup ParamInputs \cup HistoryInputs
        \cup SplitReceiptInputs \cup LargeInputs \cup RoundingInputs

---------------------------------------------------------------------------
(* The run *)

Init ==
    /\ \E in \in Inputs :
        /\ items = in.items
        /\ inventory = in.inventory
        /\ issuance = in.issuance
        /\ receipts = in.receipts
        /\ items_columns = in.columns
    /\ pc = "uom"
    /\ k = 0
    /\ i = 0
    /\ previous_s = Q(0)
    /\ avg_demand = Q(0)
    /\ debug_rows = <<>>
    /\ planned_rows = <<>>
    /\ error = ""
    /\ shown = <<>>

\* Line 80 on an Item Master without the item_id column: KeyError.
UomCheckError ==
    /\ pc = "uom"
    /\ "item_id" \notin items_columns
    /\ pc' = "crashed"
    /\ error' = "KeyError: item_id"
    /\ UNCHANGED <<inputs, k, i, previous_s, avg_demand, debug_rows, planned_rows, shown>>

\* Lines 80-107 otherwise: the UOM table is display only.
UomCheck ==
    /\ pc = "uom"
    /\ "item_id" \in items_columns
    /\ pc' = "columns"
    /\ UNCHANGED <<inputs, k, i, previous_s, avg_demand, debug_rows, planned_rows,
                   error, shown>>

\* Lines 113-116 with a column missing: st.error, st.stop.
StopMissingColumns ==
    /\ pc = "columns"
    /\ missing(items_columns) # <<>>
    /\ pc' = "stopped"
    /\ error' = "MissingColumns"
    /\ shown' = missing(items_columns)
    /\ UNCHANGED <<inputs, k, i, previous_s, avg_demand, debug_rows, planned_rows>>

\* Lines 113-114 with every required column present.
ColumnsPresent ==
    /\ pc = "columns"
    /\ missing(items_columns) = <<>>
    /\ pc' = "dupes"
    /\ UNCHANGED <<inputs, k, i, previous_s, avg_demand, debug_rows, planned_rows,
                   error, shown>>

\* Lines 118-122 with a repeated key: st.error, st.dataframe(dupes), st.stop.
StopDuplicateKeys ==
    /\ pc = "dupes"
    /\ dupes(items) # <<>>
    /\ pc' = "stopped"
    /\ error' = "DuplicateKeys"
    /\ shown' = dupes(items)
    /\ UNCHANGED <<inputs, k, i, previous_s, avg_demand, debug_rows, planned_rows>>

\* Lines 118-137 with unique keys: items_dict, time_buckets, debug_rows = [].
KeysUnique ==
    /\ pc = "dupes"
    /\ dupes(items) = <<>>
    /\ pc' = "item"
    /\ k' = 1
    /\ debug_rows' = <<>>
    /\ UNCHANGED <<inputs, i, previous_s, avg_demand, planned_rows, error, shown>>

CurKey == worklist(items, inventory)[k]

CurParams == items_dict(items, CurKey)

CurBucket == time_buckets[i + 1]

CurIncoming == IncomingQty(receipts, CurKey[1], CurKey[2], CurBucket)

\* Variant of StartBalance: the balance of the previous item is kept.
StartBalanceCarried(inv, wh, item, carried) == carried

\* previous_s at the top of the item loop (line 144); carried is the balance the
\* item before left in previous_s, which the assignment overwrites.
StartBalance(inv, wh, item, carried) == wh_inventory_get(inv, wh, item)

\* Lines 143-157: the next (wh, item) of the loops.
BeginItem ==
    /\ pc = "item"
    /\ k <= Len(worklist(items, inventory))
    /\ previous_s' = StartBalance(inventory, CurKey[1], CurKey[2], previous_s)
    /\ avg_demand' \in AvgDemand(issuance, CurKey[1], CurKey[2])
    /\ i' = 0
    /\ pc' = "bucket"
    /\ UNCHANGED <<inputs, k, debug_rows, planned_rows, error, shown>>

\* Lines 159-187: one bucket of the current item.
NetBucket ==
    /\ pc = "bucket"
    /\ ~DividesByZero(previous_s, avg_demand, CurIncoming, CurParams)
    /\ LET row == NetRow(CurKey[1], CurKey[2], CurBucket, previous_s, avg_demand,
                         CurIncoming, CurParams)
       IN  /\ debug_rows' = Append(debug_rows, row)
           /\ previous_s' = row.End_SOH
    /\ IF i + 1 < num_weeks
       THEN i' = i + 1 /\ UNCHANGED <<pc, k>>
       ELSE i' = 0 /\ pc' = "item" /\ k' = k + 1
    /\ UNCHANGED <<inputs, avg_demand, planned_rows, error, shown>>

\* Line 169 with pack_size = 0: ZeroDivisionError on Python operands; on numpy
\* operands the quotient is inf, the product nan and int() raises ValueError.
\* Either way the script ends there with an exception.
LotSizeDivisionError ==
    /\ pc = "bucket"
    /\ DividesByZero(previous_s, avg_demand, CurIncoming, CurParams)
    /\ pc' = "crashed"
    /\ error' = "DivisionByZero"
    /\ UNCHANGED <<inputs, k, i, previous_s, avg_demand, debug_rows, planned_rows, shown>>

\* Line 199 on a debug table without rows and so without columns: KeyError.
ParamTableFails(inv, rows) == warehouses(inv) # <<>> /\ rows = <<>>

ParamTableError ==
    /\ pc = "item"
    /\ k > Len(worklist(items, inventory))
    /\ ParamTableFails(inventory, debug_rows)
    /\ pc' = "crashed"
    /\ error' = "KeyError: warehouse"
    /\ UNCHANGED <<inputs, k, i, previous_s, avg_demand, debug_rows, planned_rows, shown>>

\* Lines 189-276 after the loops: the planned orders table, sorted.
PlanOrders ==
    /\ pc = "item"
    /\ k > Len(worklist(items, inventory))
    /\ ~ParamTableFails(inventory, debug_rows)
    /\ planned_rows' = PlannedOrders(items, debug_rows)
    /\ pc' = "done"
    /\ UNCHANGED <<inputs, k, i, previous_s, avg_demand, debug_rows, error, shown>>

Next ==
    \/ UomCheckError
    \/ UomCheck
    \/ StopMissingColumns
    \/ ColumnsPresent
    \/ StopDuplicateKeys
    \/ KeysUnique
    \/ BeginItem
    \/ NetBucket
    \/ LotSizeDivisionError
    \/ ParamTableError
    \/ PlanOrders

Spec == Init /\ [][Next]_vars

---------------------------------------------------------------------------
(* Properties.  Quantities are compared as the doubles they are; sums and   *)
(* differences named in a property are taken in double arithmetic, left to  *)
(* right, unless the exact operators are written.                           *)

\* The quantities of the Item Master row of a netting row, as the file gives them.
Given(r) == items_dict(items, <<r.warehouse, r.item>>)

Positive(x) == Less(Q(0), x)

\* pack_size > 0, MOQ >= 0 and safety_stock >= 0 as given.
ValidParams(p) == Positive(p.pack_size) /\ Leq(Q(0), p.MOQ) /\ Leq(Q(0), p.safety_stock)

SameItem(a, b) == a.warehouse = b.warehouse /\ a.item = b.item

\* The loops are over and no exception was raised in them.
NettingOver == pc = "done" \/ error = "KeyError: warehouse"

\* The rows of the inventory file for a key.
SnapshotRows(key) == {j \in 1..Len(inventory) : Key(inventory[j]) = key}

\* The rows emitted for a key and a bucket.
RowsFor(key, b) ==
    {j \in 1..Len(debug_rows) :
        /\ debug_rows[j].warehouse = key[1]
        /\ debug_rows[j].item = key[2]
        /\ debug_rows[j].week = b}

\* |d| in units of 2^-52 for |d| < 2^-26, and 2^26 for any other d.
TinyUnits(d) ==
    IF d.w = 0 /\ d.hi = 0 THEN d.lo
    ELSE IF d.w = -1 /\ d.hi = Limb - 1 THEN Limb - d.lo
    ELSE Limb

\* beg - req + inc, the balance of a row before any order.
PreOrder(r) == FAdd(FSub(r.Beg_SOH, r.Wkly_Req), r.Incoming)

\* C1: once the netting run is over, every (warehouse, item_id) key of ItemParams
\* has exactly one row for every bucket of the horizon, also when the inventory
\* has no row for the key or for its warehouse; the first bucket's beg_soh is the
\* on_hand_qty of the key's snapshot row, and 0 when there is none.
C1_OneRowPerKeyAndBucket ==
    NettingOver =>
        \A n \in 1..Len(items) : \A w \in 1..num_weeks :
            LET key == Key(items[n])
                got == RowsFor(key, time_buckets[w])
            IN  /\ Cardinality(got) = 1
                /\ w = 1 =>
                     \A j \in got :
                        IF SnapshotRows(key) = {}
                        THEN debug_rows[j].Beg_SOH = Q(0)
                        ELSE \E m \in SnapshotRows(key) :
                                debug_rows[j].Beg_SOH = inventory[m].on_hand_qty

\* The spacing of the doubles at x, in units of 2^-52.
Spacing(x) == 2^Log2(FloorAbs(x))

\* Three times half the spacing of the doubles at the largest of the balances
\* of a row: what the three roundings of end_soh can add up to.
RecurrenceSlack(r) ==
    LET s1 == Spacing(FSub(r.Beg_SOH, r.Wkly_Req))
        s2 == Spacing(PreOrder(r))
        s3 == Spacing(r.End_SOH)
        g == IF s1 >= s2 /\ s1 >= s3 THEN s1 ELSE IF s2 >= s3 THEN s2 ELSE s3
    IN  Norm(0, 0, 3 * (g \div 2))

\* C2: in every row end_soh = beg_soh - wkly_req + incoming + planned_order_qty
\* as doubles add up, which is within three half-spacings of the doubles of the
\* sum of the four as real numbers; a row that follows a row of the same item
\* begins with that row's end_soh; the first row of an item begins with the
\* item's own on-hand quantity (0 without a snapshot row), whatever the item
\* before it ended with.
C2_RecurrenceAndCarryForward ==
    \A j \in 1..Len(debug_rows) :
        LET r == debug_rows[j]
            sum == ExactAdd(ExactAdd(ExactSub(r.Beg_SOH, r.Wkly_Req), r.Incoming),
                            r.Planned_Order)
            off == ExactSub(r.End_SOH, sum)
        IN  /\ r.End_SOH = FAdd(PreOrder(r), r.Planned_Order)
            /\ Leq(off, RecurrenceSlack(r))
            /\ Leq(ExactSub(Q(0), RecurrenceSlack(r)), off)
            /\ IF j > 1 /\ SameItem(debug_rows[j - 1], r)
               THEN /\ r.Beg_SOH = debug_rows[j - 1].End_SOH
                    /\ r.week = debug_rows[j - 1].week + 7
               ELSE /\ r.week = 0
                    /\ IF SnapshotRows(<<r.warehouse, r.item>>) = {}
                       THEN r.Beg_SOH = Q(0)
                       ELSE \E m \in SnapshotRows(<<r.warehouse, r.item>>) :
                               r.Beg_SOH = inventory[m].on_hand_qty

\* C2 witness: a second item has begun with its own balance, which is not what
\* the item before it ended with, and has carried its balance into its second
\* bucket after an order.
C2_Witness ==
    \E j \in 3..Len(debug_rows) :
        /\ ~SameItem(debug_rows[j - 2], debug_rows[j - 1])
        /\ debug_rows[j - 1].Beg_SOH # debug_rows[j - 2].End_SOH
        /\ SameItem(debug_rows[j - 1], debug_rows[j])
        /\ Positive(debug_rows[j - 1].Planned_Order)
        /\ debug_rows[j].Beg_SOH = debug_rows[j - 1].End_SOH

\* C3: for every row of an item with valid parameters, an order is planned if
\* and only if the balance before the order, beg_soh - wkly_req + incoming, is
\* below the safety stock.
C3_OrderIffPreOrderShortage ==
    \A j \in 1..Len(debug_rows) :
        LET r == debug_rows[j]
        IN  ValidParams(Given(r)) =>
              (Positive(r.Planned_Order) <=> Less(PreOrder(r), Given(r).safety_stock))

\* C3 witness: a receipt lifts the balance from below the safety stock to at
\* least the safety stock, and no order is planned in that bucket.
C3_Witness ==
    \E j \in 1..Len(debug_rows) :
        LET r == debug_rows[j]
        IN  /\ ValidParams(Given(r))
            /\ Positive(r.Incoming)
            /\ Less(r.Beg_SOH, r.Safety_Stock)
            /\ Leq(r.Safety_Stock, PreOrder(r))
            /\ r.Planned_Order = Q(0)

\* Twice a quantity that is a multiple of 1/2, as an integer.
Twice(x) == 2 * x.w + (IF IsWhole(x) THEN 0 ELSE 1)

\* C4: for every row of an item whose pack_size > 0 and MOQ >= 0 as given, a
\* planned quantity > 0 is the smallest multiple of the given pack_size that is
\* at least max(shortage, given MOQ).
C4_SmallestPackMultiple ==
    \A j \in 1..Len(debug_rows) :
        LET r == debug_rows[j]
            p == Given(r)
            raw == Max(r.Shortage, p.MOQ)
        IN  (Positive(p.pack_size) /\ Leq(Q(0), p.MOQ) /\ Positive(r.Planned_Order)) =>
              /\ Twice(r.Planned_Order) % Twice(p.pack_size) = 0
              /\ Leq(raw, r.Planned_Order)
              /\ Less(ExactSub(r.Planned_Order, p.pack_size), raw)

\* C5: the lot-size division is never run with a pack_size <= 0: no run ends in
\* the division by zero, and no bucket with a shortage is about to be lot-sized
\* with such a divisor.
C5_NoDivisionByBadPackSize ==
    /\ error # "DivisionByZero"
    /\ pc = "bucket" =>
         ~( /\ Positive(Shortage(previous_s, avg_demand, CurIncoming, SafetyStock(CurParams)))
            /\ Leq(PackSize(CurParams), Q(0)) )

\* The history points of a key.
HistoryOf(key) == {j \in 1..Len(issuance) : Key(issuance[j]) = key}

\* The ways to take the last min(4, n) of the n history points of a key in the
\* order of week_start: no point left out is newer than a point taken.  There
\* is more than one way only when points share a week_start.
NewestChoices(key) ==
    LET H == HistoryOf(key)
        n == IF Cardinality(H) < TailLen THEN Cardinality(H) ELSE TailLen
    IN  {J \in SUBSET H :
            /\ Cardinality(J) = n
            /\ \A a \in J : \A b \in H \ J :
                  issuance[b].week_start <= issuance[a].week_start}

\* The last min(4, n) history points of a key when points of one week_start
\* are taken in file order.
NewestInFileOrder(key) ==
    LET H == HistoryOf(key)
        After(a) == {b \in H : \/ issuance[b].week_start > issuance[a].week_start
                               \/ /\ issuance[b].week_start = issuance[a].week_start
                                  /\ b > a}
    IN  {a \in H : Cardinality(After(a)) < TailLen}

\* The exact sum of the issued quantities of a set of history points.
RECURSIVE IssuedSum(_)
IssuedSum(J) ==
    IF J = {} THEN Q(0)
    ELSE LET j == CHOOSE x \in J : TRUE
         IN  ExactAdd(issuance[j].issued_qty, IssuedSum(J \ {j}))

\* count * x, exact.
RECURSIVE Times(_, _)
Times(x, count) == IF count = 0 THEN Q(0) ELSE ExactAdd(x, Times(x, count - 1))

\* x >= 1 is the_sum / count to the precision of a double: the two differ by at
\* most half the spacing of the doubles at x.
IsMean(x, the_sum, count) ==
    /\ Leq(Q(1), x)
    /\ 2 * TinyUnits(ExactSub(Times(x, count), the_sum)) <= count * 2^Log2(x.w)

\* C6 as claimed: wkly_req is the same in every row of an item and is the mean
\* of the issued_qty of the item's last min(4, n) history points in the order
\* of week_start when that mean is positive, and 1 when there is no history or
\* the mean is not positive.
C6_MeanWheneverPositive ==
    \A j \in 1..Len(debug_rows) :
        LET r == debug_rows[j]
        IN  /\ (j > 1 /\ SameItem(debug_rows[j - 1], r))
                 => r.Wkly_Req = debug_rows[j - 1].Wkly_Req
            /\ r.week = 0 =>
                 \E J \in NewestChoices(<<r.warehouse, r.item>>) :
                    IF J = {} \/ Leq(IssuedSum(J), Q(0))
                    THEN r.Wkly_Req = Q(1)
                    ELSE \/ IsMean(r.Wkly_Req, IssuedSum(J), Cardinality(J))
                         \/ Times(r.Wkly_Req, Cardinality(J)) = IssuedSum(J)

\* C6 as amended: wkly_req is the same in every row of an item and is the mean
\* of the issued_qty of the item's last min(4, n) history points in the order
\* of week_start (any of the ways to take them when points share a week_start)
\* when that mean is at least 1, and 1 when there is no history or the mean is
\* below 1.
C6_MeanFlooredAtOne ==
    \A j \in 1..Len(debug_rows) :
        LET r == debug_rows[j]
        IN  /\ (j > 1 /\ SameItem(debug_rows[j - 1], r))
                 => r.Wkly_Req = debug_rows[j - 1].Wkly_Req
            /\ r.week = 0 =>
                 \E J \in NewestChoices(<<r.warehouse, r.item>>) :
                    IF J = {} \/ Less(IssuedSum(J), Q(Cardinality(J)))
                    THEN r.Wkly_Req = Q(1)
                    ELSE IsMean(r.Wkly_Req, IssuedSum(J), Cardinality(J))

\* C6 witness: an item with more than four history points, some of one
\* week_start and not in the order of the weeks in the file, whose wkly_req is
\* above the floor, no whole number, the mean of four points none older than a
\* point left out, and not the mean of the four that file order would take
\* among the points of one week, nor of the last four rows of the file, nor of
\* all points.
C6_Witness ==
    \E j \in 1..Len(debug_rows) :
        LET r == debug_rows[j]
            key == <<r.warehouse, r.item>>
            H == HistoryOf(key)
            F == {m \in H : Cardinality({n \in H : n > m}) < 4}
        IN  /\ Cardinality(H) > 4
            /\ \E m, n \in H : m # n /\ issuance[m].week_start = issuance[n].week_start
            /\ \E m, n \in H : m < n /\ issuance[m].week_start > issuance[n].week_start
            /\ Less(Q(1), r.Wkly_Req)
            /\ ~IsWhole(r.Wkly_Req)
            /\ \E J \in NewestChoices(key) : IsMean(r.Wkly_Req, IssuedSum(J), 4)
            /\ ~IsMean(r.Wkly_Req, IssuedSum(NewestInFileOrder(key)), 4)
            /\ ~IsMean(r.Wkly_Req, IssuedSum(F), 4)
            /\ ~IsMean(r.Wkly_Req, IssuedSum(H), Cardinality(H))

\* Some row of the projection of one item from bucket w on has end_soh < 0.
RECURSIVE GoesNegative(_, _, _, _, _, _)
GoesNegative(key, prev, req, rec, p, w) ==
    IF w > num_weeks THEN FALSE
    ELSE LET inc == IncomingQty(rec, key[1], key[2], time_buckets[w])
         IN  IF DividesByZero(prev, req, inc, p) THEN FALSE
             ELSE LET r == NetRow(key[1], key[2], time_buckets[w], prev, req, inc, p)
                  IN  Less(r.End_SOH, Q(0))
                        \/ GoesNegative(key, r.End_SOH, req, rec, p, w + 1)

OrdersOf(r) ==
    {m \in 1..Len(planned_rows) :
        /\ planned_rows[m].warehouse = r.warehouse
        /\ planned_rows[m].item = r.item
        /\ planned_rows[m].receipt_week = r.week}

\* C8: the planned orders table is empty until it is built and then holds
\* exactly one order for every netting row with planned_order_qty > 0 and no
\* other; the order has the row's quantity, receipt_week = the row's week_start
\* and release_week = receipt_week - lead_time weeks, also before the horizon.
C8_OneOrderPerPlannedRow ==
    /\ pc # "done" => planned_rows = <<>>
    /\ pc = "done" =>
        /\ Len(planned_rows) =
             Cardinality({j \in 1..Len(debug_rows) : Positive(debug_rows[j].Planned_Order)})
        /\ \A j \in 1..Len(debug_rows) :
             LET r == debug_rows[j]
             IN  IF Positive(r.Planned_Order)
                 THEN /\ Cardinality(OrdersOf(r)) = 1
                      /\ \A m \in OrdersOf(r) :
                           /\ planned_rows[m].planned_qty = r.Planned_Order
                           /\ 2 * planned_rows[m].release_week =
                                2 * r.week - 7 * Twice(Given(r).lead_time)
                 ELSE OrdersOf(r) = {}

\* C8 witness: the table holds an order released before the first bucket and an
\* order released within the horizon.
C8_Witness ==
    /\ pc = "done"
    /\ \E m \in 1..Len(planned_rows) : planned_rows[m].release_week < 0
    /\ \E m \in 1..Len(planned_rows) : planned_rows[m].release_week > 0

\* The rows of ItemParams whose key another row has too, in file order.
Offending ==
    LET tagged == [j \in 1..Len(items) |-> <<j, items[j]>>]
        hit == SelectSeq(tagged, LAMBDA t :
                  \E m \in 1..Len(items) : m # t[1] /\ Key(items[m]) = Key(t[2]))
    IN  [j \in 1..Len(hit) |-> hit[j][2]]

\* C9: when ItemParams has two rows for one key, the netting loop is never
\* entered and no netting row and no planned order is produced; with the
\* required columns present the run stops at the duplicate check and shows the
\* offending rows.
C9_DuplicateKeysAbort ==
    Offending # <<>> =>
        /\ pc \in {"uom", "columns", "dupes", "stopped", "crashed"}
        /\ pc = "crashed" => error = "KeyError: item_id"
        /\ debug_rows = <<>>
        /\ planned_rows = <<>>
        /\ (pc = "stopped" /\ items_columns = AllColumns) =>
              (error = "DuplicateKeys" /\ shown = Offending)

\* C9 witness: a run stopped for a repeated key although the table also holds a
\* row with a unique key whose warehouse is in the inventory.
C9_Witness ==
    /\ pc = "stopped"
    /\ error = "DuplicateKeys"
    /\ \E n \in 1..Len(items) :
          /\ \A m \in 1..Len(items) : m # n => Key(items[m]) # Key(items[n])
          /\ \E m \in 1..Len(inventory) : inventory[m].warehouse = items[n].warehouse

ClosingSlack(r) ==
    LET s1 == Spacing(r.Shortage)
        s2 == Spacing(r.End_SOH)
    IN  Norm(0, 0, IF s1 >= s2 THEN s1 ELSE s2)

\* end_soh of a row is at or above the safety stock, or below it by no more
\* than the rounding of the row.
ClosesShortage(r) ==
    /\ Leq(r.Safety_Stock, ExactAdd(r.End_SOH, ClosingSlack(r)))
    /\ r.Planned_Order = Q(0) => Leq(r.Safety_Stock, r.End_SOH)

=============================================================================
